---- MODULE Spec2Model ----
(***************************************************************************)
(* wakatime-stats: one run of src/index.ts.                                *)
(*                                                                         *)
(* main() starts fetchWakaTimeStats() and fetchGistFilename() together,    *)
(* waits for both (Promise.all), then updateGist() renders the snapshot    *)
(* and PATCHes the gist.  JavaScript runs each callback to completion, so  *)
(* an action is the code between two awaits; the remote services answer    *)
(* each request with a success or a failure, in any order.                 *)
(*                                                                         *)
(* Strings are atomic values (a non-ASCII character is written U+xxxx);   *)
(* the PROGRESS_STYLE setting is taken character by character where the    *)
(* code lower-cases it.  A template string is the record of its parts, a   *)
(* joined text the sequence of its lines.  Numbers are exact rationals     *)
(* (numerator, denominator); the quotient 0/0 is the value NaN.            *)
(***************************************************************************)
EXTENDS Integers, Sequences, FiniteSets, TLC

VARIABLES
    env,        \* process.env: TIME_RANGE and PROGRESS_STYLE
    gist,       \* the remote collection: the files the gist GET returns, in key order
    mainPc,     \* main: "start", "awaitAll", "awaitUpdate", "done"
    mainState,  \* main's promise: "pending", "fulfilled", "rejected"
    statsPc,    \* fetchWakaTimeStats: "idle", "awaitGet", "done"
    statsRet,   \* its resolved value: null, undefined or a snapshot
    locPc,      \* fetchGistFilename: "idle", "awaitGet", "awaitPatch", "returned", "thrown"
    locData,    \* the files read by its GET
    locRet,     \* its resolved value (the filename) or the message it threw
    content,    \* updateGist's content
    statsBody,  \* the body the stats GET resolved with
    requests,   \* every HTTP request issued so far, in order
    pending,    \* the indices in requests of the requests not yet resolved or rejected
    logs        \* every line logged so far, in order

vars == <<env, gist, mainPc, mainState, statsPc, statsRet, locPc, locData, locRet,
          content, statsBody, requests, pending, logs>>

---------------------------------------------------------------------------
(* Bounds of the model *)

\* a snapshot has at most MaxLangs languages
MaxLangs == 6
\* total_seconds is a multiple of SecondsStep, at most MaxUnits * SecondsStep
MaxUnits == 2
SecondsStep == 1830

---------------------------------------------------------------------------
(* JavaScript values *)

Undefined == [set |-> FALSE, val |-> ""]
Str(s) == [set |-> TRUE, val |-> s]

\* a string as its characters
Chars(s) ==
    CASE s = "" -> <<>>
      [] s = "default" -> <<"d", "e", "f", "a", "u", "l", "t">>
      [] s = "arrow" -> <<"a", "r", "r", "o", "w">>
      [] s = "hash" -> <<"h", "a", "s", "h">>
      [] s = "Arrow" -> <<"A", "r", "r", "o", "w">>
      [] s = "HASH" -> <<"H", "A", "S", "H">>
      [] s = "foo" -> <<"f", "o", "o">>

LowerChar(c) ==
    CASE c = "A" -> "a"
      [] c = "H" -> "h"
      [] c = "S" -> "s"
      [] OTHER -> c

\* String.prototype.toLowerCase
toLowerCase(s) == [i \in DOMAIN s |-> LowerChar(s[i])]

\* String.prototype.repeat; repeat(NaN) is the empty string
repeat(glyph, n) == [i \in 1..n |-> glyph]

NaN == [nan |-> TRUE, num |-> 0, den |-> 1]
Num(n, d) == IF d = 0 THEN NaN ELSE [nan |-> FALSE, num |-> n, den |-> d]

\* Math.round of n/d for n >= 0, d > 0: the nearest integer, a half rounds up
Round(n, d) == (2 * n + d) \div (2 * d)

---------------------------------------------------------------------------
(* Types and configuration, index.ts lines 5-50 *)

TimeRange == {"yesterday", "last_7_days", "last_30_days", "last_year"}

EndpointStats(range) == [kind |-> "stats", range |-> range]
EndpointSummaries(range) == [kind |-> "summaries", range |-> range]

PROGRESS_STYLES ==
    [key \in {Chars("arrow"), Chars("hash"), Chars("default")} |->
        CASE key = Chars("arrow") -> [filled |-> "U+25B6", empty |-> "U+25B7", blocks |-> 16]
          [] key = Chars("hash") -> [filled |-> "#", empty |-> "-", blocks |-> 25]
          [] key = Chars("default") -> [filled |-> "U+25B0", empty |-> "U+25B1", blocks |-> 14]]

GIST_TITLES ==
    [range \in TimeRange |->
        CASE range = "yesterday" -> "U+2615 Yesterday Coding Stats"
          [] range = "last_7_days" -> "U+2615 Last 7 Days Coding Stats"
          [] range = "last_30_days" -> "U+2615 Last 30 Days Coding Stats"
          [] range = "last_year" -> "U+2615 Last Year Coding Stats"]

Placeholder == "No WakaTime stats available"

\* (process.env.TIME_RANGE as TimeRange) || 'last_7_days': the cast checks nothing
EnvTimeRange(e) ==
    IF e.TIME_RANGE.set /\ e.TIME_RANGE.val # "" THEN e.TIME_RANGE.val ELSE "last_7_days"

getWakaTimeEndpoint(range) ==
    IF range = "yesterday" THEN EndpointSummaries("yesterday") ELSE EndpointStats(range)

\* GIST_TITLES[range] || GIST_TITLES.last_7_days
getGistTitle(range) ==
    IF range \in DOMAIN GIST_TITLES THEN GIST_TITLES[range] ELSE GIST_TITLES["last_7_days"]

---------------------------------------------------------------------------
(* Formatting, index.ts lines 64-86 *)

formatDuration(seconds) ==
    LET hours == seconds \div 3600
        minutes == (seconds % 3600) \div 60
        text == (IF hours # 0 THEN <<hours, "hrs">> ELSE <<>>)
                    \o (IF minutes # 0 THEN <<minutes, "mins">> ELSE <<>>)
    IN  IF text = <<>> THEN <<0, "mins">> ELSE text

\* process.env.PROGRESS_STYLE?.toLowerCase() || 'default'
StyleKey(e) ==
    LET lowered == IF e.PROGRESS_STYLE.set
                   THEN [set |-> TRUE, val |-> toLowerCase(Chars(e.PROGRESS_STYLE.val))]
                   ELSE [set |-> FALSE, val |-> <<>>]
    IN  IF lowered.set /\ lowered.val # <<>> THEN lowered.val ELSE Chars("default")

\* the bar, or the TypeError of reading .blocks of undefined
createProgressBar(e, percentage) ==
    LET key == StyleKey(e)
    IN  IF key \notin DOMAIN PROGRESS_STYLES
        THEN [threw |-> TRUE, bar |-> <<>>]
        ELSE LET style == PROGRESS_STYLES[key]
             IN  IF percentage.nan
                 THEN [threw |-> FALSE, bar |-> <<>>]
                 ELSE LET filled == Round(percentage.num * style.blocks, 100 * percentage.den)
                      IN  [threw |-> FALSE,
                           bar |-> repeat(style.filled, filled)
                                       \o repeat(style.empty, style.blocks - filled)]

RECURSIVE SumSeconds(_)
\* stats.languages.reduce((sum, l) => sum + l.total_seconds, 0)
SumSeconds(languages) ==
    IF languages = <<>> THEN 0
    ELSE SumSeconds(SubSeq(languages, 1, Len(languages) - 1))
             + languages[Len(languages)].total_seconds

\* languages.slice(0, 5)
SliceLimit == 5
Slice(languages) == SubSeq(languages, 1, IF Len(languages) < SliceLimit THEN Len(languages) ELSE SliceLimit)

\* Percentage out of the seconds of the languages shown
PercentageOfShown(lang, languages) ==
    Num(100 * lang.total_seconds, SumSeconds(Slice(languages)))

\* the percentage of one language: (lang.total_seconds / sum) * 100
Percentage(lang, languages) == Num(100 * lang.total_seconds, SumSeconds(languages))

\* Number.prototype.toFixed(1), in tenths
toFixed1(percentage) ==
    IF percentage.nan THEN [nan |-> TRUE, tenths |-> 0]
    ELSE [nan |-> FALSE, tenths |-> Round(10 * percentage.num, percentage.den)]

\* one line of the text: the callback of map
FormatLine(e, lang, languages) ==
    [name |-> lang.name,
     duration |-> formatDuration(lang.total_seconds),
     bar |-> createProgressBar(e, Percentage(lang, languages)).bar,
     percent |-> toFixed1(Percentage(lang, languages))]

\* the lines of the text, or the error of the first bar that throws
formatStats(e, stats) ==
    LET shown == Slice(stats.languages)
    IN  IF \E i \in DOMAIN shown :
               createProgressBar(e, Percentage(shown[i], stats.languages)).threw
        THEN [kind |-> "threw", text |-> "", lines |-> <<>>]
        ELSE [kind |-> "lines", text |-> "",
              lines |-> [i \in DOMAIN shown |-> FormatLine(e, shown[i], stats.languages)]]

---------------------------------------------------------------------------
(* The inputs of a run *)

LangNames == <<"TypeScript", "Python", "Go", "Rust", "CSS", "HTML", "JSON", "YAML">>

\* the snapshot whose i-th language has secs[i] seconds
Snapshot(secs) ==
    [languages |-> [i \in DOMAIN secs |-> [name |-> LangNames[i], total_seconds |-> secs[i]]]]

Seconds == {k * SecondsStep : k \in 0..MaxUnits}

\* every snapshot within the bounds, in any order of seconds
AllSnapshots ==
    {Snapshot(secs) : secs \in UNION {[1..n -> Seconds] : n \in 0..MaxLangs}}

\* the snapshots the stats API answers with in a whole run
RunSnapshots ==
    {Snapshot(<<>>),
     Snapshot(<<0>>),
     Snapshot(<<SecondsStep, 2 * SecondsStep>>),
     Snapshot([i \in 1..MaxLangs |-> SecondsStep])}

TimeRangeSettings ==
    {Undefined} \cup {Str(s) : s \in TimeRange \cup {"", "foo"}}

StyleSettings ==
    {Undefined} \cup {Str(s) : s \in {"", "default", "arrow", "hash", "Arrow", "HASH", "foo"}}

File(filename, text) == [filename |-> filename, content |-> text]

\* the gist before the run: no file, the file under a title, under another name,
\* and two files
InitialGists ==
    {<<>>,
     <<File(GIST_TITLES["last_7_days"], "old stats")>>,
     <<File(GIST_TITLES["yesterday"], "old stats")>>,
     <<File("notes.txt", "hello")>>,
     <<File("notes.txt", "hello"), File("other.md", "kept")>>}

\* the bodies the stats API answers one endpoint with: WakaTimeResponse,
\* SummaryResponse, or a body without data
StatsBodies(endpoint) ==
    IF endpoint.kind = "summaries"
    THEN {[hasData |-> TRUE, data |-> days] :
            days \in {<<>>} \cup {<<s>> : s \in RunSnapshots}
                        \cup {<<Snapshot(<<SecondsStep>>), Snapshot(<<>>)>>}}
            \cup {[hasData |-> FALSE, data |-> <<>>]}
    ELSE {[hasData |-> TRUE, data |-> s] : s \in RunSnapshots}
            \cup {[hasData |-> FALSE, data |-> Snapshot(<<>>)]}

NoBody == [received |-> FALSE, hasData |-> FALSE, data |-> <<>>]
Received(body) == [received |-> TRUE, hasData |-> body.hasData, data |-> body.data]

GistUrl == [kind |-> "gist", range |-> ""]
Get(url) == [method |-> "GET", url |-> url, files |-> <<>>]
Patch(files) == [method |-> "PATCH", url |-> GistUrl, files |-> files]

Null == [kind |-> "null", languages |-> <<>>]
UndefinedStats == [kind |-> "undefined", languages |-> <<>>]
Stats(s) == [kind |-> "stats", languages |-> s.languages]

NoContent == [kind |-> "none", text |-> "", lines |-> <<>>]

Info(msg) == [level |-> "info", msg |-> msg, detail |-> ""]
Error(msg, detail) == [level |-> "error", msg |-> msg, detail |-> detail]

\* the message of a failed request
TransportError == "Request failed"

---------------------------------------------------------------------------
(* The run, index.ts lines 88-176 *)

Init ==
    /\ env \in [TIME_RANGE : TimeRangeSettings, PROGRESS_STYLE : StyleSettings]
    /\ gist \in InitialGists
    /\ mainPc = "start"
    /\ mainState = "pending"
    /\ statsPc = "idle"
    /\ statsRet = Null
    /\ locPc = "idle"
    /\ locData = <<>>
    /\ locRet = ""
    /\ content = NoContent
    /\ statsBody = NoBody
    /\ requests = <<>>
    /\ pending = {}
    /\ logs = <<>>

\* the places in requests of a run's requests, in the order main issues them
StatsGetIndex == 1
LocatorGetIndex == 2
RenameIndex == 3

\* fetchWakaTimeStats up to its await: the GET of the range's endpoint
StartStats == Get(getWakaTimeEndpoint(EnvTimeRange(env)))

\* fetchGistFilename up to its await: the GET of the gist
StartLocator == Get(GistUrl)

\* MainStart that awaits the stats fetch before it calls the locator
MainStartSequential ==
    /\ mainPc = "start"
    /\ logs' = Append(logs, Info("Fetching WakaTime stats and gist filename..."))
    /\ requests' = requests \o <<StartStats>>
    /\ pending' = {StatsGetIndex}
    /\ statsPc' = "awaitGet"
    /\ mainPc' = "awaitAll"
    /\ UNCHANGED <<env, gist, mainState, statsRet, locPc, locData, locRet, content, statsBody>>

\* main up to its await: both calls made, Promise.all pending
MainStart ==
    /\ mainPc = "start"
    /\ logs' = Append(logs, Info("Fetching WakaTime stats and gist filename..."))
    /\ requests' = requests \o <<StartStats, StartLocator>>
    /\ pending' = {StatsGetIndex, LocatorGetIndex}
    /\ statsPc' = "awaitGet"
    /\ locPc' = "awaitGet"
    /\ mainPc' = "awaitAll"
    /\ UNCHANGED <<env, gist, mainState, statsRet, locData, locRet, content, statsBody>>

\* StatsOfBody that takes an empty summaries response for a failure
StatsOfBodyEmptyFails(timeRange, body) ==
    IF timeRange = "yesterday"
    THEN IF ~body.hasData \/ body.data = <<>> THEN [threw |-> TRUE, value |-> Null]
         ELSE [threw |-> FALSE, value |-> Stats(body.data[1])]
    ELSE [threw |-> FALSE,
          value |-> IF body.hasData THEN Stats(body.data) ELSE UndefinedStats]

\* what fetchWakaTimeStats makes of a response body; threw is the TypeError of
\* indexing a missing data
StatsOfBody(timeRange, body) ==
    IF timeRange = "yesterday"
    THEN IF ~body.hasData THEN [threw |-> TRUE, value |-> Null]
         ELSE [threw |-> FALSE,
               value |-> IF body.data = <<>> THEN Stats(Snapshot(<<>>))
                         ELSE Stats(body.data[1])]
    ELSE [threw |-> FALSE,
          value |-> IF body.hasData THEN Stats(body.data) ELSE UndefinedStats]

\* StatsCatch without its return null
StatsCatchNoReturn(detail) ==
    /\ logs' = Append(logs, Error("Failed to fetch WakaTime stats", detail))
    /\ statsRet' = UndefinedStats

\* the catch of fetchWakaTimeStats
StatsCatch(detail) ==
    /\ logs' = Append(logs, Error("Failed to fetch WakaTime stats", detail))
    /\ statsRet' = Null

\* the stats GET resolves
StatsGetOk ==
    /\ statsPc = "awaitGet"
    /\ \E body \in StatsBodies(getWakaTimeEndpoint(EnvTimeRange(env))) :
          LET r == StatsOfBody(EnvTimeRange(env), body)
          IN  /\ statsBody' = Received(body)
              /\ IF r.threw
                 THEN StatsCatch("TypeError")
                 ELSE statsRet' = r.value /\ UNCHANGED logs
    /\ statsPc' = "done"
    /\ pending' = pending \ {StatsGetIndex}
    /\ UNCHANGED <<env, gist, mainPc, mainState, locPc, locData, locRet, content, requests>>

\* the stats GET rejects
StatsGetFail ==
    /\ statsPc = "awaitGet"
    /\ StatsCatch(TransportError)
    /\ statsPc' = "done"
    /\ pending' = pending \ {StatsGetIndex}
    /\ UNCHANGED <<env, gist, mainPc, mainState, locPc, locData, locRet, content, statsBody,
                   requests>>

\* LocatorCatch that logs and returns instead of throwing
LocatorCatchSwallow(message) ==
    /\ logs' = Append(logs, Error("Failed to fetch/update gist filename", message))
    /\ locPc' = "returned"
    /\ locRet' = message

\* the catch of fetchGistFilename: logs and throws the message again
LocatorCatch(message) ==
    /\ logs' = Append(logs, Error("Failed to fetch/update gist filename", message))
    /\ locPc' = "thrown"
    /\ locRet' = message

\* RenamePatch that sends the new filename without the content
RenamePatchNoContent(oldFilename, newFilename, files) ==
    Patch(<<[key |-> oldFilename,
             set |-> {"filename"},
             filename |-> newFilename,
             content |-> ""]>>)

\* the rename request of fetchGistFilename
RenamePatch(oldFilename, newFilename, files) ==
    Patch(<<[key |-> oldFilename,
             set |-> {"filename", "content"},
             filename |-> newFilename,
             content |-> files[1].content]>>)

\* the gist GET resolves
LocatorGetOk ==
    /\ locPc = "awaitGet"
    /\ locData' = gist
    /\ LET newFilename == getGistTitle(EnvTimeRange(env))
       IN  IF gist = <<>>
           THEN /\ LocatorCatch("No files found in the gist")
                /\ pending' = pending \ {LocatorGetIndex}
                /\ UNCHANGED requests
           ELSE LET oldFilename == gist[1].filename
                IN  IF oldFilename # newFilename
                    THEN /\ requests' = Append(requests, RenamePatch(oldFilename, newFilename, gist))
                         /\ pending' = (pending \ {LocatorGetIndex}) \cup {Len(requests) + 1}
                         /\ locPc' = "awaitPatch"
                         /\ UNCHANGED <<locRet, logs>>
                    ELSE /\ locPc' = "returned"
                         /\ locRet' = newFilename
                         /\ pending' = pending \ {LocatorGetIndex}
                         /\ UNCHANGED <<requests, logs>>
    /\ UNCHANGED <<env, gist, mainPc, mainState, statsPc, statsRet, content, statsBody>>

\* the gist GET rejects
LocatorGetFail ==
    /\ locPc = "awaitGet"
    /\ LocatorCatch(TransportError)
    /\ pending' = pending \ {LocatorGetIndex}
    /\ UNCHANGED <<env, gist, mainPc, mainState, statsPc, statsRet, locData, content,
                   statsBody, requests>>

\* the rename PATCH resolves
LocatorPatchOk ==
    /\ locPc = "awaitPatch"
    /\ locPc' = "returned"
    /\ locRet' = getGistTitle(EnvTimeRange(env))
    /\ pending' = pending \ {RenameIndex}
    /\ UNCHANGED <<env, gist, mainPc, mainState, statsPc, statsRet, locData, content,
                   statsBody, requests, logs>>

\* the rename PATCH rejects
LocatorPatchFail ==
    /\ locPc = "awaitPatch"
    /\ LocatorCatch(TransportError)
    /\ pending' = pending \ {RenameIndex}
    /\ UNCHANGED <<env, gist, mainPc, mainState, statsPc, statsRet, locData, content,
                   statsBody, requests>>

\* const content = stats ? formatStats(stats) : 'No WakaTime stats available'
ContentOf(e, stats) ==
    IF stats.kind = "stats" THEN formatStats(e, stats)
    ELSE [kind |-> "literal", text |-> Placeholder, lines |-> <<>>]

\* the content request of updateGist
ContentPatch(filename, c) ==
    Patch(<<[key |-> filename, set |-> {"content"}, filename |-> "", content |-> c]>>)

\* MainCatch that logs and throws again: main's promise rejects
MainCatchRethrow(detail) ==
    /\ logs' = logs \o detail
    /\ mainPc' = "done"
    /\ mainState' = "rejected"

\* the catch of main: logs, and main's promise fulfils
MainCatch(detail) ==
    /\ logs' = logs \o detail
    /\ mainPc' = "done"
    /\ mainState' = "fulfilled"

\* Promise.all resolves: main calls updateGist, which renders and issues the
\* PATCH; an error of formatStats is outside updateGist's try
MainAllResolved ==
    /\ mainPc = "awaitAll"
    /\ statsPc = "done"
    /\ locPc = "returned"
    /\ content' = ContentOf(env, statsRet)
    /\ IF content'.kind = "threw"
       THEN /\ MainCatch(<<Info("Updating gist with latest stats..."),
                           Error("Operation failed", "TypeError")>>)
            /\ UNCHANGED <<requests, pending>>
       ELSE /\ requests' = Append(requests, ContentPatch(locRet, content'))
            /\ pending' = pending \cup {Len(requests) + 1}
            /\ logs' = Append(logs, Info("Updating gist with latest stats..."))
            /\ mainPc' = "awaitUpdate"
            /\ UNCHANGED mainState
    /\ UNCHANGED <<env, gist, statsPc, statsRet, locPc, locData, locRet, statsBody>>

\* Promise.all rejects with the locator's error, whatever the stats fetch does
MainAllRejected ==
    /\ mainPc = "awaitAll"
    /\ locPc = "thrown"
    /\ MainCatch(<<Error("Operation failed", locRet)>>)
    /\ UNCHANGED <<env, gist, statsPc, statsRet, locPc, locData, locRet, content, statsBody,
                   requests, pending>>

\* the end of updateGist's try or catch: main returns
UpdateReturn(line) ==
    /\ logs' = Append(logs, line)
    /\ mainPc' = "done"
    /\ mainState' = "fulfilled"

\* the content PATCH resolves
UpdatePatchOk ==
    /\ mainPc = "awaitUpdate"
    /\ UpdateReturn(Info("Gist updated successfully"))
    /\ pending' = pending \ {Len(requests)}
    /\ UNCHANGED <<env, gist, statsPc, statsRet, locPc, locData, locRet, content, statsBody,
                   requests>>

\* the content PATCH rejects: logged and swallowed
UpdatePatchFail ==
    /\ mainPc = "awaitUpdate"
    /\ UpdateReturn(Error("Failed to update gist", TransportError))
    /\ pending' = pending \ {Len(requests)}
    /\ UNCHANGED <<env, gist, statsPc, statsRet, locPc, locData, locRet, content, statsBody,
                   requests>>

Next ==
    \/ MainStart
    \/ StatsGetOk
    \/ StatsGetFail
    \/ LocatorGetOk
    \/ LocatorGetFail
    \/ LocatorPatchOk
    \/ LocatorPatchFail
    \/ MainAllResolved
    \/ MainAllRejected
    \/ UpdatePatchOk
    \/ UpdatePatchFail

Spec == Init /\ [][Next]_vars

\* every issued request is answered in the end, and the event loop runs a
\* callback that is ready: the run does not stop while a step is possible
Fairness == WF_vars(Next)

FairSpec == Spec /\ Fairness

---------------------------------------------------------------------------
(* updateGist on every snapshot within the bounds: the run taken up where   *)
(* Promise.all resolves, the stats fetch having returned the snapshot and   *)
(* the locator the title of the file the gist already holds.                *)

FormatInit ==
    /\ env \in [TIME_RANGE : {Undefined},
                 PROGRESS_STYLE : {Undefined} \cup {Str(s) : s \in {"default", "arrow", "hash"}}]
    /\ gist = <<File(GIST_TITLES["last_7_days"], "old stats")>>
    /\ mainPc = "awaitAll"
    /\ mainState = "pending"
    /\ statsPc = "done"
    /\ \E s \in AllSnapshots :
          /\ statsRet = Stats(s)
          /\ statsBody = Received([hasData |-> TRUE, data |-> s])
    /\ locPc = "returned"
    /\ locData = gist
    /\ locRet = GIST_TITLES["last_7_days"]
    /\ content = NoContent
    /\ requests = <<StartStats, StartLocator>>
    /\ pending = {}
    /\ logs = <<Info("Fetching WakaTime stats and gist filename...")>>

FormatNext ==
    \/ MainAllResolved
    \/ UpdatePatchOk
    \/ UpdatePatchFail

FormatSpec == FormatInit /\ [][FormatNext]_vars

---------------------------------------------------------------------------
(* What the claims speak of *)

Logged(msg) == \E i \in DOMAIN logs : logs[i].level = "error" /\ logs[i].msg = msg
LoggedInfo(msg) == \E i \in DOMAIN logs : logs[i].level = "info" /\ logs[i].msg = msg
LoggedWith(msg, detail) ==
    \E i \in DOMAIN logs :
        logs[i].level = "error" /\ logs[i].msg = msg /\ logs[i].detail = detail

\* a PATCH that carries a new filename, a PATCH that carries only content
IsRename(r) == r.method = "PATCH" /\ \E k \in DOMAIN r.files : "filename" \in r.files[k].set
IsContentWrite(r) == r.method = "PATCH" /\ \A k \in DOMAIN r.files : r.files[k].set = {"content"}
IsStatsGet(r) == r.method = "GET" /\ r.url.kind \in {"stats", "summaries"}
IsGistGet(r) == r.method = "GET" /\ r.url.kind = "gist"

Renames == {i \in DOMAIN requests : IsRename(requests[i])}
ContentWrites == {i \in DOMAIN requests : IsContentWrite(requests[i])}
StatsGets == {i \in DOMAIN requests : IsStatsGet(requests[i])}
GistGets == {i \in DOMAIN requests : IsGistGet(requests[i])}

\* the TIME_RANGE setting names one of the four ranges
RangeRecognized == env.TIME_RANGE.set /\ env.TIME_RANGE.val \in TimeRange

\* the title of the range the setting resolves to
Title == IF RangeRecognized THEN GIST_TITLES[env.TIME_RANGE.val] ELSE GIST_TITLES["last_7_days"]

LocatorFailed == Logged("Failed to fetch/update gist filename")
StatsFailed == Logged("Failed to fetch WakaTime stats")

---------------------------------------------------------------------------
(* C1: when the locator fails (no file in the gist, or its GET or its       *)
(* rename PATCH fails) no content PATCH is ever issued in the run, whatever *)
(* the stats fetch does; the error is thrown again and main's handler logs  *)
(* it.  A gist without files never yields a filename, and the error of a    *)
(* fetched gist without files is 'No files found in the gist'.              *)
C1_LocatorFailureStopsTheWrite ==
    /\ LocatorFailed =>
          /\ ContentWrites = {}
          /\ locPc = "thrown"
          /\ mainPc \in {"awaitAll", "done"}
          /\ mainPc = "done" => LoggedWith("Operation failed", locRet)
          /\ locRet \in {"No files found in the gist", TransportError}
    /\ gist = <<>> => locPc \notin {"awaitPatch", "returned"} /\ Renames = {}
    /\ locRet = "No files found in the gist" => gist = <<>> /\ locPc = "thrown"

\* the gist has no file, the locator has thrown, main has logged it and ended
\* while the stats GET is still in flight
C1_Witness ==
    /\ gist = <<>>
    /\ locRet = "No files found in the gist"
    /\ mainPc = "done"
    /\ LoggedWith("Operation failed", "No files found in the gist")
    /\ statsPc = "awaitGet"

(* C2: when the stats fetch fails and the locator succeeds, the failure is  *)
(* not propagated: the snapshot is null, main goes on to the content write, *)
(* whose content is the literal 'No WakaTime stats available' and whose     *)
(* filename is the one the locator returned.                                *)
C2_StatsFailureWritesPlaceholder ==
    StatsFailed =>
        /\ statsPc = "done"
        /\ statsRet = Null
        /\ mainState # "rejected"
        /\ locPc = "returned" =>
              /\ ~Logged("Operation failed")
              /\ mainPc \in {"awaitAll", "awaitUpdate", "done"}
              /\ mainPc \in {"awaitUpdate", "done"} =>
                    /\ Cardinality(ContentWrites) = 1
                    /\ \A i \in ContentWrites :
                          /\ Len(requests[i].files) = 1
                          /\ requests[i].files[1].key = locRet
                          /\ requests[i].files[1].content.kind = "literal"
                          /\ requests[i].files[1].content.text = "No WakaTime stats available"

\* the stats GET failed, the locator renamed the file and returned, and the
\* placeholder was written
C2_Witness ==
    /\ LoggedWith("Failed to fetch WakaTime stats", TransportError)
    /\ locPc = "returned"
    /\ Renames # {}
    /\ mainPc = "done"
    /\ ContentWrites # {}

(* C5: in the locator, when the first filename of the gist differs from the *)
(* title of the resolved range, exactly one rename PATCH is issued and it   *)
(* has completed when the locator returns; it names that one file only,     *)
(* gives it the title as its filename and carries the content the GET read. *)
(* When the first filename is the title already, no rename PATCH is issued. *)
(* Either way the filename returned is the title.                           *)
C5_RenameOnlyWhenNeeded ==
    /\ Cardinality(Renames) <= 1
    /\ \A i \in Renames :
          /\ gist # <<>>
          /\ gist[1].filename # Title
          /\ requests[i].files = <<[key |-> gist[1].filename,
                                    set |-> {"filename", "content"},
                                    filename |-> Title,
                                    content |-> gist[1].content]>>
    /\ locPc = "returned" =>
          /\ locRet = Title
          /\ gist # <<>>
          /\ gist[1].filename # Title => Cardinality(Renames) = 1 /\ Renames \cap pending = {}
          /\ gist[1].filename = Title => Renames = {}
    /\ locPc = "awaitPatch" => Renames # {} /\ Renames \subseteq pending

\* a gist of two files, the first under another name than the title of
\* yesterday: the rename was issued and answered, and the locator returned
C5_Witness ==
    /\ env.TIME_RANGE = Str("yesterday")
    /\ Len(gist) = 2
    /\ gist[1].filename = "notes.txt"
    /\ locPc = "returned"
    /\ locRet = "U+2615 Yesterday Coding Stats"
    /\ Cardinality(Renames) = 1

(* C6: the stats GET and the gist GET are both issued before either is      *)
(* answered, and the content PATCH is issued only when the stats fetch and  *)
(* the locator have both completed, the answer to the locator's rename      *)
(* PATCH included: the content write comes after the rename in the order of *)
(* the requests, in every interleaving.                                     *)
C6_FanOutFanIn ==
    /\ (StatsGets # {} \/ GistGets # {}) =>
          /\ Cardinality(StatsGets) = 1
          /\ Cardinality(GistGets) = 1
    /\ (statsPc \notin {"idle", "awaitGet"} \/ locPc \notin {"idle", "awaitGet"}) =>
          StatsGets # {} /\ GistGets # {}
    /\ (StatsGets \cup GistGets) \ pending # {} => StatsGets # {} /\ GistGets # {}
    /\ \A w \in ContentWrites :
          /\ statsPc = "done"
          /\ locPc = "returned"
          /\ (StatsGets \cup GistGets \cup Renames) \cap pending = {}
          /\ \A r \in StatsGets \cup GistGets \cup Renames : r < w

\* the content write was issued in a run that renamed the file
C6_Witness ==
    /\ ContentWrites # {}
    /\ Renames # {}
    /\ mainPc = "awaitUpdate"

(* C8: with the range yesterday the stats fetcher asks the summaries        *)
(* endpoint and returns the languages of the first daily summary; a         *)
(* response with no summary gives a snapshot of no language, not the null   *)
(* of a failure, and logs no error.  With any other range it asks the       *)
(* stats endpoint of that range and returns the data of the response.       *)
C8_SummariesOfYesterday ==
    /\ \A i \in StatsGets :
          IF env.TIME_RANGE = Str("yesterday")
          THEN requests[i].url = [kind |-> "summaries", range |-> "yesterday"]
          ELSE requests[i].url.kind = "stats"
    /\ (statsBody.received /\ statsBody.hasData) =>
          /\ statsPc = "done"
          /\ statsRet.kind = "stats"
          /\ ~StatsFailed
          /\ statsRet.languages =
                IF env.TIME_RANGE = Str("yesterday")
                THEN IF Len(statsBody.data) = 0 THEN <<>> ELSE statsBody.data[1].languages
                ELSE statsBody.data.languages

\* yesterday's summaries came back with no element: a snapshot of no language
C8_Witness ==
    /\ env.TIME_RANGE = Str("yesterday")
    /\ statsBody.received
    /\ statsBody.hasData
    /\ statsBody.data = <<>>
    /\ statsRet = [kind |-> "stats", languages |-> <<>>]
    /\ logs = <<Info("Fetching WakaTime stats and gist filename...")>>

(* C7: every run of main ends and no error escapes it: whatever fails among *)
(* the stats fetch, the gist GET, the rename PATCH, the formatting and the  *)
(* content PATCH, main's promise is never rejected and is fulfilled in the  *)
(* end, and a run ends with exactly one of: the write reported done, the    *)
(* failed write logged by updateGist, the error logged by main's handler    *)
(* (a locator failure, with the locator's message).                         *)
C7_MainAlwaysCompletes ==
    /\ [](mainState # "rejected")
    /\ <>(mainPc = "done" /\ mainState = "fulfilled")
    /\ [](mainPc = "done" =>
            /\ Cardinality({m \in {"Gist updated successfully", "Failed to update gist",
                                   "Operation failed"} :
                               Logged(m) \/ LoggedInfo(m)}) = 1
            /\ LocatorFailed => LoggedWith("Operation failed", locRet)
            /\ content.kind = "threw" => LoggedWith("Operation failed", "TypeError")
            /\ ContentWrites # {} => Logged("Failed to update gist")
                                        \/ LoggedInfo("Gist updated successfully"))

\* a run that ended with the content PATCH rejected, after a failed stats fetch
C7_Witness ==
    /\ mainPc = "done"
    /\ mainState = "fulfilled"
    /\ StatsFailed
    /\ Logged("Failed to update gist")

---------------------------------------------------------------------------
(* The rendered text *)

RECURSIVE TotalSeconds(_)
\* the seconds of all the languages of a snapshot
TotalSeconds(languages) ==
    IF languages = <<>> THEN 0
    ELSE Head(languages).total_seconds + TotalSeconds(Tail(languages))

RECURSIVE SumTenths(_)
\* the sum of the percentages of rendered lines, in tenths
SumTenths(lines) ==
    IF lines = <<>> THEN 0 ELSE Head(lines).percent.tenths + SumTenths(Tail(lines))

Abs(x) == IF x < 0 THEN -x ELSE x

\* tenths / 10 is 100 * seconds / total to one decimal place
IsPercentOf(tenths, seconds, total) == 2 * Abs(tenths * total - 1000 * seconds) <= total

\* the glyphs and the block count of the style the setting names; the default
\* style when it names none
StyleOfSetting ==
    LET v == env.PROGRESS_STYLE.val
    IN  IF env.PROGRESS_STYLE.set /\ v \in {"arrow", "Arrow"}
        THEN [filled |-> "U+25B6", empty |-> "U+25B7", blocks |-> 16]
        ELSE IF env.PROGRESS_STYLE.set /\ v \in {"hash", "HASH"}
        THEN [filled |-> "#", empty |-> "-", blocks |-> 25]
        ELSE [filled |-> "U+25B0", empty |-> "U+25B1", blocks |-> 14]

\* the bar is k filled glyphs and then empty glyphs up to the block count
IsBar(bar, k) ==
    /\ Len(bar) = StyleOfSetting.blocks
    /\ k \in 0..StyleOfSetting.blocks
    /\ \A j \in DOMAIN bar :
          bar[j] = IF j <= k THEN StyleOfSetting.filled ELSE StyleOfSetting.empty

(* C9: formatStats renders min(5, N) lines for a snapshot of N languages,   *)
(* line i for the i-th language of the snapshot in the snapshot's order,    *)
(* and the percentage of a line is 100 * total_seconds_i / S to one         *)
(* decimal place, S being the seconds of all N languages, not of those      *)
(* rendered (with S = 0 the quotient 0 / 0, rendered NaN).                  *)
C9_FirstFiveOverFullTotal ==
    content.kind = "lines" =>
        LET languages == statsRet.languages
            total == TotalSeconds(languages)
        IN  /\ Len(content.lines) = IF Len(languages) < 5 THEN Len(languages) ELSE 5
            /\ \A i \in DOMAIN content.lines :
                  /\ content.lines[i].name = languages[i].name
                  /\ content.lines[i].percent.nan = (total = 0)
                  /\ total # 0 => IsPercentOf(content.lines[i].percent.tenths,
                                              languages[i].total_seconds, total)

\* six languages not in descending order: five lines, whose percentages sum
\* to less than 100
C9_Witness ==
    /\ content.kind = "lines"
    /\ Len(statsRet.languages) = 6
    /\ Len(content.lines) = 5
    /\ statsRet.languages[1].total_seconds < statsRet.languages[2].total_seconds
    /\ statsRet.languages[6].total_seconds > 0
    /\ SumTenths(content.lines) < 1000

(* C10: for every recognized style and every snapshot, one of seconds all   *)
(* zero included, the bar of every rendered line has exactly the block      *)
(* count of the style: round(percentage / 100 * blocks) filled glyphs, then *)
(* empty glyphs; the filled count is within 0 .. blocks.                    *)
C10_BarHasBlockCount ==
    content.kind = "lines" =>
        \A i \in DOMAIN content.lines :
            /\ Len(content.lines[i].bar) = StyleOfSetting.blocks
            /\ \E k \in 0..StyleOfSetting.blocks :
                  /\ IsBar(content.lines[i].bar, k)
                  /\ TotalSeconds(statsRet.languages) # 0 =>
                        2 * Abs(k * TotalSeconds(statsRet.languages)
                                  - StyleOfSetting.blocks * statsRet.languages[i].total_seconds)
                            <= TotalSeconds(statsRet.languages)

(* C3: whatever the PROGRESS_STYLE setting is, createProgressBar returns a  *)
(* bar and does not raise, with the glyphs of the default style when the    *)
(* setting is unset or names no style; so a run with a snapshot of at least *)
(* one language and a successful locator issues its content write.          *)
C3_AnyStyleStillWrites ==
    (statsPc = "done" /\ statsRet.kind = "stats" /\ statsRet.languages # <<>>
        /\ locPc = "returned" /\ mainPc \in {"awaitUpdate", "done"}) =>
        /\ content.kind = "lines"
        /\ ContentWrites # {}
        /\ (~env.PROGRESS_STYLE.set
               \/ env.PROGRESS_STYLE.val \notin {"default", "arrow", "hash", "Arrow", "HASH"}) =>
              \A i \in DOMAIN content.lines : \A j \in DOMAIN content.lines[i].bar :
                  content.lines[i].bar[j] \in {"U+25B0", "U+25B1"}

(* C4: when the TIME_RANGE setting is unset or is none of the four ranges,  *)
(* the run is that of last_7_days: the stats fetcher asks the stats         *)
(* endpoint of last_7_days and the locator returns the title of             *)
(* last_7_days.                                                             *)
C4_UnknownRangeIsLastSevenDays ==
    ~RangeRecognized =>
        /\ \A i \in StatsGets : requests[i].url = [kind |-> "stats", range |-> "last_7_days"]
        /\ locPc = "returned" => locRet = "U+2615 Last 7 Days Coding Stats"

====
